---------------------------- MODULE Spec2Model ----------------------------
(***************************************************************************)
(* Model of jpegtran/transform.py: the EXIF orientation tables, the        *)
(* geometric operations of JPEGImage and the thumbnail regeneration of     *)
(* JPEGImage._update_thumbnail.                                            *)
(*                                                                         *)
(* A handle is an index into heap; heap[id] is the byte buffer self.data   *)
(* of that JPEGImage, abstracted to what the code reads from it: width,    *)
(* height, the orientation tag (0 = no tag) and the embedded thumbnail     *)
(* (a sequence of length 0 or 1).                                          *)
(*                                                                         *)
(* jpegtran.lib (lib.Transformation, lib.Exif) is not part of             *)
(* transform.py; its operations are modelled from the collaborator         *)
(* contracts of the specification (definitions named Codec... / Exif...).  *)
(***************************************************************************)
EXTENDS Integers, Sequences, FiniteSets, TLC

VARIABLES
    heap,            \* Spec: handle id -> buffer, after the last call
    pre,             \* Spec: the heap before the last call
    self,            \* Spec: the handle the last call was made on
    call,            \* Spec: the last call, <<method, arguments...>>
    world,           \* Spec: outcome of the last call: ret, err, tb, log
    scaleKeepsExif,  \* whether the codec's scaled output carries the EXIF data
    path,            \* AlgSpec: orientations visited, path[1] the first
    hist,            \* AlgSpec: the operations applied, in order
    stack,           \* ChainSpec: frames of the running _update_thumbnail chain
    chain            \* ChainSpec: status and events of the chain

vars == <<heap, pre, self, call, world, scaleKeepsExif, path, hist, stack, chain>>

handleVars == <<heap, pre, self, call, world>>
algVars    == <<path, hist>>
chainVars  == <<stack, chain>>

-----------------------------------------------------------------------------
(* Bounds of the model *)

\* longest sequence of table lookups followed in AlgSpec
MaxOps == 4

\* images of every size 1..MaxSmall x 1..MaxSmall are enumerated, next to SpecialDims
MaxSmall == 2

\* ChainSpec: the most frames the chain of calls may hold; a chain that asks
\* for more stops there without returning
MaxDepth == 8

-----------------------------------------------------------------------------
(* The orientation tables, transform.py lines 6-16 *)

Orientations == 1..8

EXIF_ROT_MAP_Swapped ==
    ( 90  :> (1 :> 8 @@ 8 :> 3 @@ 3 :> 6 @@ 6 :> 1 @@ 2 :> 7 @@ 7 :> 4 @@ 4 :> 5 @@ 5 :> 2)
   @@ 180 :> (1 :> 3 @@ 3 :> 1 @@ 2 :> 4 @@ 4 :> 2 @@ 5 :> 7 @@ 7 :> 5 @@ 6 :> 8 @@ 8 :> 6)
   @@ 270 :> (1 :> 6 @@ 6 :> 3 @@ 3 :> 8 @@ 8 :> 1 @@ 2 :> 5 @@ 5 :> 4 @@ 4 :> 2 @@ 7 :> 2) )

EXIF_ROT_MAP ==
    ( 90  :> (1 :> 8 @@ 8 :> 3 @@ 3 :> 6 @@ 6 :> 1 @@ 2 :> 7 @@ 7 :> 4 @@ 4 :> 5 @@ 5 :> 2)
   @@ 180 :> (1 :> 3 @@ 3 :> 1 @@ 2 :> 4 @@ 4 :> 2 @@ 5 :> 7 @@ 7 :> 5 @@ 6 :> 8 @@ 8 :> 6)
   @@ 270 :> (1 :> 6 @@ 6 :> 3 @@ 3 :> 8 @@ 8 :> 1 @@ 2 :> 5 @@ 5 :> 4 @@ 4 :> 7 @@ 7 :> 2) )

EXIF_FLIP_MAP_Shifted ==
    [ horizontal |-> (1 :> 2 @@ 2 :> 1 @@ 3 :> 4 @@ 4 :> 3 @@ 5 :> 6 @@ 6 :> 5 @@ 7 :> 8 @@ 8 :> 7),
      vertical   |-> (1 :> 4 @@ 4 :> 1 @@ 2 :> 3 @@ 3 :> 2 @@ 5 :> 6 @@ 6 :> 5 @@ 7 :> 8 @@ 8 :> 7) ]

EXIF_FLIP_MAP ==
    [ horizontal |-> (1 :> 2 @@ 2 :> 1 @@ 3 :> 4 @@ 4 :> 3 @@ 5 :> 6 @@ 6 :> 5 @@ 7 :> 8 @@ 8 :> 7),
      vertical   |-> (1 :> 4 @@ 4 :> 1 @@ 2 :> 3 @@ 3 :> 2 @@ 5 :> 8 @@ 8 :> 5 @@ 6 :> 7 @@ 7 :> 6) ]

EXIF_TRANSPOSE_MAP ==
    (1 :> 5 @@ 5 :> 1 @@ 2 :> 6 @@ 6 :> 2 @@ 3 :> 7 @@ 7 :> 3 @@ 4 :> 8 @@ 8 :> 4)

EXIF_TRANVERSE_MAP ==
    (1 :> 7 @@ 7 :> 1 @@ 2 :> 8 @@ 8 :> 2 @@ 3 :> 5 @@ 5 :> 3 @@ 4 :> 6 @@ 6 :> 4)

\* `x or 1' of lines 129, 147, 160, 174: a missing tag (0) counts as 1
OrOne(x) == IF x = 0 THEN 1 ELSE x

\* The value the handlers write when with_exif is set: the right-hand sides
\* of lines 129, 147, 160 and 174.
RotateOrientation(angle, orient)    == EXIF_ROT_MAP[angle][OrOne(orient)]
FlipOrientation(direction, orient)  == EXIF_FLIP_MAP[direction][OrOne(orient)]
TransposeOrientation(orient)        == EXIF_TRANSPOSE_MAP[OrOne(orient)]
TransverseOrientation(orient)       == EXIF_TRANVERSE_MAP[OrOne(orient)]

Angles     == {90, 180, 270}
Directions == {"horizontal", "vertical"}

\* The seven operations that carry an orientation table, as <<method, argument>>
TableOps ==
    {<<"rotate", a>> : a \in Angles} \cup {<<"flip", d>> : d \in Directions}
        \cup {<<"transpose", 0>>, <<"transverse", 0>>}

\* The table of an operation, as the handler of that operation selects it
TableOf(op) ==
    CASE op[1] = "rotate"     -> EXIF_ROT_MAP[op[2]]
      [] op[1] = "flip"       -> EXIF_FLIP_MAP[op[2]]
      [] op[1] = "transpose"  -> EXIF_TRANSPOSE_MAP
      [] op[1] = "transverse" -> EXIF_TRANVERSE_MAP

-----------------------------------------------------------------------------
(* AlgSpec: the orientation written by a sequence of with_exif operations  *)

IdleHandles ==
    /\ heap = <<>>
    /\ pre = <<>>
    /\ self = 0
    /\ call = <<"none">>
    /\ world = [ret |-> 0, err |-> "none", tb |-> <<>>, log |-> <<>>]

IdleChain ==
    /\ stack = <<>>
    /\ chain = [status |-> "idle", err |-> "none", events |-> <<>>, of |-> <<>>]

AlgInit ==
    /\ path \in {<<o>> : o \in Orientations}
    /\ hist = <<>>
    /\ scaleKeepsExif = FALSE
    /\ IdleHandles
    /\ IdleChain

Cur == path[Len(path)]

AlgStep(op, new) ==
    /\ Len(hist) < MaxOps
    /\ path' = Append(path, new)
    /\ hist' = Append(hist, op)
    /\ UNCHANGED <<handleVars, chainVars, scaleKeepsExif>>

AlgRotate(angle)   == AlgStep(<<"rotate", angle>>, RotateOrientation(angle, Cur))
AlgFlip(direction) == AlgStep(<<"flip", direction>>, FlipOrientation(direction, Cur))
AlgTranspose       == AlgStep(<<"transpose", 0>>, TransposeOrientation(Cur))
AlgTransverse      == AlgStep(<<"transverse", 0>>, TransverseOrientation(Cur))

AlgNext ==
    \/ \E angle \in Angles : AlgRotate(angle)
    \/ \E direction \in Directions : AlgFlip(direction)
    \/ AlgTranspose
    \/ AlgTransverse

AlgSpec == AlgInit /\ [][AlgNext]_vars

-----------------------------------------------------------------------------
(* Python arithmetic of _update_thumbnail, lines 251-256, as Python 3       *)
(* computes it (the module has no floor-division import of Python 2).      *)
(* width/height is a true division of two ints: the nearest IEEE-754       *)
(* double (53-bit significand, ties to even); 160/q rounds again and int() *)
(* truncates. The operators below compute that result with integers only.  *)

RECURSIVE FloorLog2From(_, _, _)
FloorLog2From(n, d, e) == IF 2 * d <= n THEN FloorLog2From(n, 2 * d, e + 1) ELSE e

\* the largest e with d * 2^e <= n, for n >= d >= 1
FloorLog2(n, d) == FloorLog2From(n, d, 0)

Pow2(n) == 2 ^ n

\* 2^n modulo m for n <= 52, without leaving 32-bit integers
Pow2Mod(n, m) ==
    IF n <= 26 THEN Pow2(n) % m
    ELSE ((Pow2(26) % m) * (Pow2(n - 26) % m)) % m

IsPow2(k) == k = Pow2(FloorLog2(k, 1))

\* The double width/height (width > height) is above the exact quotient
\* exactly when the division rounds up; its distance from the quotient is
\* then gap * 2^(e-52) / height. 0 when the double is exact or below.
QuotientGapUp(width, height) ==
    LET e   == FloorLog2(width, height)
        r   == ((width % height) * Pow2Mod(52 - e, height)) % height
        r2  == ((width % (2 * height)) * Pow2Mod(52 - e, 2 * height)) % (2 * height)
        odd == r2 >= height
    IN  IF 2 * r > height \/ (2 * r = height /\ odd) THEN height - r ELSE 0

\* int(160/(width/height)), line 253, for width > height >= 1.
\* 160*height/width that is no integer is at least 1/width away from one and
\* no rounding reaches across; an integer k comes out as k-1 when the
\* quotient was rounded up by more than half the spacing of doubles below k.
IntOf160OverRatio(width, height) ==
    LET k == (160 * height) \div width
    IN  IF (160 * height) % width # 0 THEN k
        ELSE LET gap == QuotientGapUp(width, height)
                 e   == FloorLog2(width, height)
                 j   == FloorLog2(k, 1)
                 lhs == IF IsPow2(k) THEN k * gap * Pow2(e + 2) ELSE k * gap * Pow2(e + 1)
             IN  IF gap > 0 /\ lhs > Pow2(j) * width THEN k - 1 ELSE k

\* int(160*(width/height)), line 256, for 1 <= width <= height. 160 = 5 * 2^5
\* and 5 = 2^2 + 2^0, so multiplying the rounded quotient k/160 back by 160
\* gives k exactly; the result is the exact floor.
IntOf160TimesRatio(width, height) == (160 * width) \div height

\* <<target_width, target_height>> of lines 249-256
ThumbTarget(width, height) ==
    IF width > height
    THEN <<160, IntOf160OverRatio(width, height)>>
    ELSE <<IntOf160TimesRatio(width, height), 160>>

\* the condition of line 257 under which regeneration is skipped
SkipsUpscale(width, height, target) ==
    target[1] > width /\ target[2] > height

-----------------------------------------------------------------------------
(* The collaborators of jpegtran.lib, from sections 1 and 6 of the         *)
(* specification. A buffer is [w, h, orient, thumb, q]: q is the quality   *)
(* of the last lossy re-encode of the pixels (0: never re-encoded).        *)

Blob(buf) == [w |-> buf.w, h |-> buf.h]

\* lib.Transformation(data).get_dimensions()
CodecDimensions(buf) == <<buf.w, buf.h>>

Swapped(buf) == [buf EXCEPT !.w = buf.h, !.h = buf.w]

\* lib.Transformation(data).rotate / flip / transpose / transverse: lossless,
\* the EXIF segment is carried over
CodecRotate(buf, angle)    == IF angle = 180 THEN buf ELSE Swapped(buf)
CodecFlip(buf, direction)  == buf
CodecTranspose(buf)        == Swapped(buf)
CodecTransverse(buf)       == Swapped(buf)

\* lib.Transformation(data).crop: fails with CodecError on an empty rectangle
CodecCropOk(x, y, width, height) == width >= 1 /\ height >= 1
CodecCrop(buf, x, y, width, height) == [buf EXCEPT !.w = width, !.h = height]

\* lib.Transformation(data).scale: a lossy re-encode at the given quality;
\* fails with CodecError on an empty target. keeps: whether the output
\* still carries the EXIF segment of the input.
CodecScaleOk(width, height) == width >= 1 /\ height >= 1
CodecScale(buf, width, height, quality, keeps) ==
    [w |-> width, h |-> height, q |-> quality,
     orient |-> IF keeps THEN buf.orient ELSE 0,
     thumb  |-> IF keeps THEN buf.thumb ELSE <<>>]

\* lib.Exif(data).orientation, read (0: ExifException) and written
ExifOrientation(buf) == buf.orient
ExifSetOrientation(buf, value) == [buf EXCEPT !.orient = value]

\* lib.Exif(data).thumbnail, read (<<>>: ExifException) and written
ExifThumbnail(buf) == buf.thumb
ExifSetThumbnail(buf, data) == [buf EXCEPT !.thumb = <<data>>]

-----------------------------------------------------------------------------
(* A run of one call. wd = [heap, log, err, tb, ret]: the buffers of all   *)
(* handles, the collaborator calls made so far, the exception in flight    *)
(* ("none" if none) with its traceback (outermost frame first), and the    *)
(* value returned by the call that finished last (0: None).                *)

NoError == "none"

Start(h) == [heap |-> h, log |-> <<>>, err |-> NoError, tb |-> <<>>, ret |-> 0]

Logged(wd, name, id, arg) ==
    [wd EXCEPT !.log = Append(@, [call |-> name, on |-> id, arg |-> arg])]

\* raise kind(...) in function fn
Raise(wd, kind, fn) == [wd EXCEPT !.err = kind, !.tb = <<fn>>, !.ret = 0]

\* an exception in flight leaves function fn
Unwind(wd, fn) == [wd EXCEPT !.tb = <<fn>> \o @, !.ret = 0]

\* JPEGImage(blob=...), lines 19-35: a new handle with its own buffer
NewImage(wd, buf) == [wd EXCEPT !.heap = Append(@, buf)]
Newest(wd) == Len(wd.heap)

\* the width and height properties, lines 37-45
Width(wd, id)  == CodecDimensions(wd.heap[id])[1]
Height(wd, id) == CodecDimensions(wd.heap[id])[2]

\* the exif_orientation setter, lines 83-87
SetExifOrientation(wd, id, value) ==
    IF ~(0 < value /\ value < 9)
    THEN Raise(wd, "InvalidParameter", "exif_orientation")
    ELSE [Logged(wd, "set_orientation", id, <<value>>)
            EXCEPT !.heap[id] = ExifSetOrientation(@, value)]

\* the exif_thumbnail setter, lines 60-70, given the handle of the new thumbnail
SetExifThumbnail(wd, id, image) ==
    IF ExifThumbnail(wd.heap[id]) = <<>>
    THEN Raise(wd, "NoExistingThumbnail", "exif_thumbnail")
    ELSE [Logged(wd, "set_thumbnail", id, <<image>>)
            EXCEPT !.heap[id] = ExifSetThumbnail(@, Blob(wd.heap[image]))]

\* return value from function fn, or let the exception in flight leave it
Return(wd, value, fn) ==
    IF wd.err # NoError THEN Unwind(wd, fn) ELSE [wd EXCEPT !.ret = value]

RECURSIVE UpdateThumbnail(_, _, _)
RECURSIVE Downscale(_, _, _, _, _, _)

\* JPEGImage.downscale, lines 202-222
DownscaleIsIdentity_Never(wd, id, width, height) == FALSE

DownscaleIsIdentity_Swapped(wd, id, width, height) ==
    width = Height(wd, id) /\ height = Width(wd, id)

\* the condition of line 215
DownscaleIsIdentity(wd, id, width, height) ==
    width = Width(wd, id) /\ height = Height(wd, id)

\* the condition of line 217

DownscaleRejects(wd, id, width, height) ==
    width > Width(wd, id) \/ height > Height(wd, id)

Downscale(wd, id, width, height, quality, keeps) ==
    IF DownscaleIsIdentity(wd, id, width, height) THEN Return(wd, id, "downscale")
    ELSE IF DownscaleRejects(wd, id, width, height)
    THEN Raise(wd, "InvalidParameter", "downscale")
    ELSE IF ~CodecScaleOk(width, height)
    THEN Raise(Logged(wd, "scale", id, <<width, height, quality>>), "CodecError", "downscale")
    ELSE LET made == NewImage(Logged(wd, "scale", id, <<width, height, quality>>),
                              CodecScale(wd.heap[id], width, height, quality, keeps))
             new  == Newest(made)
         IN  Return(UpdateThumbnail(made, new, keeps), new, "downscale")

\* JPEGImage._update_thumbnail, lines 246-262. Two entries of the log are
\* no collaborator calls: thumb_target records the target computed at lines
\* 249-256, thumb_downscale the call self.downscale(target) of line 261.
UpdateThumbnail(wd, id, keeps) ==
    IF ExifThumbnail(wd.heap[id]) = <<>> THEN Return(wd, 0, "_update_thumbnail")
    ELSE LET target == ThumbTarget(Width(wd, id), Height(wd, id))
             asked  == Logged(wd, "thumb_target", id, target)
         IN  IF SkipsUpscale(Width(wd, id), Height(wd, id), target)
             THEN Return(asked, 0, "_update_thumbnail")
             ELSE LET scaled == Downscale(Logged(asked, "thumb_downscale", id, target),
                                          id, target[1], target[2], 75, keeps)
                  IN  IF scaled.err # NoError THEN Unwind(scaled, "_update_thumbnail")
                      ELSE Return(SetExifThumbnail(scaled, id, scaled.ret), 0,
                                  "_update_thumbnail")

\* the tail shared by rotate, flip, transpose and transverse: the lines after
\* the codec call (128-131, 146-149, 159-162, 173-176); id is self, new the
\* handle made from the codec's output
FinishTransform_OnSelf(wd, id, new, with_exif, value, keeps, fn) ==
    LET tagged == IF with_exif THEN SetExifOrientation(wd, id, value) ELSE wd
    IN  IF tagged.err # NoError THEN Unwind(tagged, fn)
        ELSE Return(UpdateThumbnail(tagged, new, keeps), new, fn)

FinishTransform(wd, id, new, with_exif, value, keeps, fn) ==
    LET tagged == IF with_exif THEN SetExifOrientation(wd, new, value) ELSE wd
    IN  IF tagged.err # NoError THEN Unwind(tagged, fn)
        ELSE Return(UpdateThumbnail(tagged, new, keeps), new, fn)

\* JPEGImage.rotate, lines 117-131
Rotate(wd, id, angle, with_exif, keeps) ==
    IF angle \notin {90, 180, 270} THEN Raise(wd, "InvalidParameter", "rotate")
    ELSE LET made == NewImage(Logged(wd, "rotate", id, <<angle>>),
                              CodecRotate(wd.heap[id], angle))
             img  == Newest(made)
         IN  FinishTransform(made, id, img, with_exif,
                             RotateOrientation(angle, ExifOrientation(made.heap[img])),
                             keeps, "rotate")

\* JPEGImage.flip, lines 133-149
Flip(wd, id, direction, with_exif, keeps) ==
    IF direction \notin {"horizontal", "vertical"}
    THEN Raise(wd, "InvalidParameter", "flip")
    ELSE LET made == NewImage(Logged(wd, "flip", id, <<direction>>),
                              CodecFlip(wd.heap[id], direction))
             new  == Newest(made)
         IN  FinishTransform(made, id, new, with_exif,
                             FlipOrientation(direction, ExifOrientation(made.heap[new])),
                             keeps, "flip")

\* JPEGImage.transpose, lines 151-162
TransposeImage(wd, id, with_exif, keeps) ==
    LET made == NewImage(Logged(wd, "transpose", id, <<>>), CodecTranspose(wd.heap[id]))
        new  == Newest(made)
    IN  FinishTransform(made, id, new, with_exif,
                        TransposeOrientation(ExifOrientation(made.heap[new])),
                        keeps, "transpose")

\* JPEGImage.transverse, lines 164-176
TransverseImage(wd, id, with_exif, keeps) ==
    LET made == NewImage(Logged(wd, "transverse", id, <<>>), CodecTransverse(wd.heap[id]))
        new  == Newest(made)
    IN  FinishTransform(made, id, new, with_exif,
                        TransverseOrientation(ExifOrientation(made.heap[new])),
                        keeps, "transverse")

\* the condition valid_crop of lines 193-194
ValidCrop(wd, id, x, y, width, height) ==
    /\ x < Width(wd, id) /\ y < Height(wd, id)
    /\ x + width <= Width(wd, id) /\ y + height <= Height(wd, id)

\* JPEGImage.crop, lines 178-200
Crop(wd, id, x, y, width, height, keeps) ==
    IF ~ValidCrop(wd, id, x, y, width, height) THEN Raise(wd, "InvalidParameter", "crop")
    ELSE IF ~CodecCropOk(x, y, width, height)
    THEN Raise(Logged(wd, "crop", id, <<x, y, width, height>>), "CodecError", "crop")
    ELSE LET made == NewImage(Logged(wd, "crop", id, <<x, y, width, height>>),
                              CodecCrop(wd.heap[id], x, y, width, height))
             new  == Newest(made)
         IN  Return(UpdateThumbnail(made, new, keeps), new, "crop")

\* JPEGImage.exif_autotransform, lines 89-115
ExifAutotransform(wd, id, keeps) ==
    LET orient == ExifOrientation(wd.heap[id])
        done(r) == Return(r, r.ret, "exif_autotransform")
    IN  CASE orient = 0 -> Raise(wd, "MissingMetadata", "exif_autotransform")
          [] orient = 1 -> Return(wd, id, "exif_autotransform")
          [] orient = 2 -> done(Flip(wd, id, "horizontal", TRUE, keeps))
          [] orient = 3 -> done(Rotate(wd, id, 180, TRUE, keeps))
          [] orient = 4 -> done(Flip(wd, id, "vertical", TRUE, keeps))
          [] orient = 5 -> done(TransposeImage(wd, id, TRUE, keeps))
          [] orient = 6 -> done(Rotate(wd, id, 90, TRUE, keeps))
          [] orient = 7 -> done(TransverseImage(wd, id, TRUE, keeps))
          [] orient = 8 -> done(Rotate(wd, id, 270, TRUE, keeps))
          [] OTHER      -> Return(wd, 0, "exif_autotransform")

-----------------------------------------------------------------------------
(* Spec: calls of the public methods on the handles the program holds      *)

SpecialDims == {29, 100, 160, 800, 1600}
Dims == (1..MaxSmall) \cup SpecialDims

\* a thumbnail as a camera wrote it, before any regeneration
StaleThumb == [w |-> 160, h |-> 120]

InitImages ==
    [w : Dims, h : Dims, orient : 0..8, thumb : {<<>>, <<StaleThumb>>}, q : {0}]

AnglesTried     == Angles \cup {45}
DirectionsTried == Directions \cup {"diagonal"}
Qualities       == {75, 90}

IdleAlg == path = <<1>> /\ hist = <<>>

Init ==
    /\ heap \in {<<b>> : b \in InitImages}
    /\ pre = heap
    /\ self = 1
    /\ call = <<"none">>
    /\ world = [ret |-> 0, err |-> NoError, tb |-> <<>>, log |-> <<>>]
    /\ scaleKeepsExif = FALSE
    /\ IdleAlg
    /\ IdleChain

\* The caller holds one handle, handle 1 of a heap of one buffer, and calls
\* a method on it (call = <<"none">>: no call made on it yet).
Fresh == call = <<"none">>

Outcome(c, wd) ==
    /\ Fresh
    /\ call' = c
    /\ heap' = wd.heap
    /\ world' = [ret |-> wd.ret, err |-> wd.err, tb |-> wd.tb, log |-> wd.log]
    /\ UNCHANGED <<pre, self, scaleKeepsExif, algVars, chainVars>>

CallRotate(angle, with_exif) ==
    Outcome(<<"rotate", angle, with_exif>>,
            Rotate(Start(heap), self, angle, with_exif, scaleKeepsExif))

CallFlip(direction, with_exif) ==
    Outcome(<<"flip", direction, with_exif>>,
            Flip(Start(heap), self, direction, with_exif, scaleKeepsExif))

CallTranspose(with_exif) ==
    Outcome(<<"transpose", with_exif>>,
            TransposeImage(Start(heap), self, with_exif, scaleKeepsExif))

CallTransverse(with_exif) ==
    Outcome(<<"transverse", with_exif>>,
            TransverseImage(Start(heap), self, with_exif, scaleKeepsExif))

CallCrop(x, y, width, height) ==
    Outcome(<<"crop", x, y, width, height>>,
            Crop(Start(heap), self, x, y, width, height, scaleKeepsExif))

CallDownscale(width, height, quality) ==
    Outcome(<<"downscale", width, height, quality>>,
            Downscale(Start(heap), self, width, height, quality, scaleKeepsExif))

CallExifAutotransform ==
    Outcome(<<"exif_autotransform">>,
            ExifAutotransform(Start(heap), self, scaleKeepsExif))

\* The caller goes on with the handle the call returned (with the one it
\* had, when the call raised) and drops every other handle.
Keep ==
    /\ ~Fresh
    /\ LET kept == IF world.ret # 0 THEN world.ret ELSE self
       IN  /\ heap' = <<heap[kept]>>
           /\ pre' = <<heap[kept]>>
    /\ self' = 1
    /\ call' = <<"none">>
    /\ world' = [ret |-> 0, err |-> NoError, tb |-> <<>>, log |-> <<>>]
    /\ UNCHANGED <<scaleKeepsExif, algVars, chainVars>>

Next ==
    \/ \E angle \in AnglesTried, with_exif \in BOOLEAN : CallRotate(angle, with_exif)
    \/ \E direction \in DirectionsTried, with_exif \in BOOLEAN :
          CallFlip(direction, with_exif)
    \/ \E with_exif \in BOOLEAN : CallTranspose(with_exif)
    \/ \E with_exif \in BOOLEAN : CallTransverse(with_exif)
    \/ \E x \in {0, 1, heap[self].w}, y \in {0, 1, heap[self].h},
          width \in {0, 1, heap[self].w}, height \in {0, 1, heap[self].h} :
          CallCrop(x, y, width, height)
    \/ \E width \in {1, heap[self].w, heap[self].w + 1},
          height \in {1, heap[self].h, heap[self].h + 1}, quality \in Qualities :
          CallDownscale(width, height, quality)
    \/ CallExifAutotransform
    \/ Keep

Spec == Init /\ [][Next]_vars

-----------------------------------------------------------------------------
(* ChainSpec: the calls _update_thumbnail -> downscale -> _update_thumbnail *)
(* -> ... that one geometric operation starts, one step per call, return   *)
(* or raise. stack holds the frames of the calls in progress, the newest   *)
(* last: fn the function, pc its position, img the buffer of its self,     *)
(* target the size asked of downscale, made what it got back so far (the   *)
(* buffer of new in downscale, of updated in _update_thumbnail). chain     *)
(* holds the image the chain started on (of), how it ended and the scale   *)
(* and set_thumbnail calls it made.                                        *)

Frame(fn, pc, img, target, made) ==
    [fn |-> fn, pc |-> pc, img |-> img, target |-> target, made |-> made]

ChainInit ==
    /\ scaleKeepsExif \in BOOLEAN
    /\ \E b \in InitImages :
          /\ stack = <<Frame("_update_thumbnail", "call", b, <<0, 0>>, <<>>)>>
          /\ chain = [status |-> "running", err |-> NoError, events |-> <<>>, of |-> <<b>>]
    /\ IdleHandles
    /\ IdleAlg

Top == stack[Len(stack)]
Below == SubSeq(stack, 1, Len(stack) - 1)
At(fn, pc) == stack # <<>> /\ Top.fn = fn /\ Top.pc = pc
OnTop(frame) == Append(Below, frame)
Event(name) == [ev |-> name, depth |-> Len(stack), w |-> Top.img.w, h |-> Top.img.h]
AsWorld(img) == Start(<<img>>)

ChainFrame == UNCHANGED <<handleVars, algVars, scaleKeepsExif>>

\* lines 247-248: no embedded thumbnail, return
ThumbAbsent ==
    /\ At("_update_thumbnail", "call")
    /\ ExifThumbnail(Top.img) = <<>>
    /\ stack' = OnTop([Top EXCEPT !.pc = "done"])
    /\ UNCHANGED chain
    /\ ChainFrame

\* lines 249-260: the target would upscale, return
ThumbSkip ==
    /\ At("_update_thumbnail", "call")
    /\ ExifThumbnail(Top.img) # <<>>
    /\ SkipsUpscale(Top.img.w, Top.img.h, ThumbTarget(Top.img.w, Top.img.h))
    /\ stack' = OnTop([Top EXCEPT !.pc = "done"])
    /\ UNCHANGED chain
    /\ ChainFrame

\* lines 249-261: call self.downscale(target_width, target_height)
ThumbCallsDownscale ==
    /\ At("_update_thumbnail", "call")
    /\ ExifThumbnail(Top.img) # <<>>
    /\ LET target == ThumbTarget(Top.img.w, Top.img.h)
       IN  /\ ~SkipsUpscale(Top.img.w, Top.img.h, target)
           /\ stack' = Append(OnTop([Top EXCEPT !.pc = "wait", !.target = target]),
                              Frame("downscale", "call", Top.img, target, <<>>))
    /\ UNCHANGED chain
    /\ ChainFrame

\* lines 215-216: return self to the caller, which goes on at line 262
DownscaleIdentity ==
    /\ At("downscale", "call")
    /\ DownscaleIsIdentity(AsWorld(Top.img), 1, Top.target[1], Top.target[2])
    /\ stack' = SubSeq(stack, 1, Len(stack) - 2)
                   \o <<[stack[Len(stack) - 1] EXCEPT !.pc = "set", !.made = <<Top.img>>]>>
    /\ UNCHANGED chain
    /\ ChainFrame

\* lines 217-218: raise; nothing catches it, every frame is left
DownscaleRaises ==
    /\ At("downscale", "call")
    /\ ~DownscaleIsIdentity(AsWorld(Top.img), 1, Top.target[1], Top.target[2])
    /\ DownscaleRejects(AsWorld(Top.img), 1, Top.target[1], Top.target[2])
    /\ stack' = <<>>
    /\ chain' = [chain EXCEPT !.status = "raised", !.err = "InvalidParameter"]
    /\ ChainFrame

\* lines 219-220: the codec refuses an empty target; nothing catches it
DownscaleCodecFails ==
    /\ At("downscale", "call")
    /\ ~DownscaleIsIdentity(AsWorld(Top.img), 1, Top.target[1], Top.target[2])
    /\ ~DownscaleRejects(AsWorld(Top.img), 1, Top.target[1], Top.target[2])
    /\ ~CodecScaleOk(Top.target[1], Top.target[2])
    /\ stack' = <<>>
    /\ chain' = [chain EXCEPT !.status = "raised", !.err = "CodecError"]
    /\ ChainFrame

\* lines 219-221: new = JPEGImage(scaled bytes); call new._update_thumbnail()
DownscaleScales ==
    /\ At("downscale", "call")
    /\ Len(stack) < MaxDepth
    /\ ~DownscaleIsIdentity(AsWorld(Top.img), 1, Top.target[1], Top.target[2])
    /\ ~DownscaleRejects(AsWorld(Top.img), 1, Top.target[1], Top.target[2])
    /\ CodecScaleOk(Top.target[1], Top.target[2])
    /\ LET new == CodecScale(Top.img, Top.target[1], Top.target[2], 75, scaleKeepsExif)
       IN  stack' = Append(OnTop([Top EXCEPT !.pc = "wait", !.made = <<new>>]),
                           Frame("_update_thumbnail", "call", new, <<0, 0>>, <<>>))
    /\ chain' = [chain EXCEPT !.events = Append(@, Event("scale"))]
    /\ ChainFrame

\* line 222: return new to the caller, which goes on at line 262
DownscaleReturns ==
    /\ At("downscale", "wait")
    /\ stack' = SubSeq(stack, 1, Len(stack) - 2)
                   \o <<[stack[Len(stack) - 1] EXCEPT !.pc = "set", !.made = Top.made]>>
    /\ UNCHANGED chain
    /\ ChainFrame

\* line 262: self.exif_thumbnail = updated
ThumbSets ==
    /\ At("_update_thumbnail", "set")
    /\ stack' = OnTop([Top EXCEPT !.pc = "done",
                                  !.img = ExifSetThumbnail(@, Blob(Top.made[1]))])
    /\ chain' = [chain EXCEPT !.events = Append(@, Event("set_thumbnail"))]
    /\ ChainFrame

\* _update_thumbnail returns: to the geometric operation that started the
\* chain, or to the downscale that called it on its new image
ThumbReturns ==
    /\ At("_update_thumbnail", "done")
    /\ stack' = IF Len(stack) = 1 THEN <<>>
                ELSE SubSeq(stack, 1, Len(stack) - 2)
                        \o <<[stack[Len(stack) - 1] EXCEPT !.made = <<Top.img>>]>>
    /\ chain' = IF Len(stack) = 1 THEN [chain EXCEPT !.status = "returned"] ELSE chain
    /\ ChainFrame

ChainNext ==
    \/ ThumbAbsent
    \/ ThumbSkip
    \/ ThumbCallsDownscale
    \/ DownscaleIdentity
    \/ DownscaleRaises
    \/ DownscaleCodecFails
    \/ DownscaleScales
    \/ DownscaleReturns
    \/ ThumbSets
    \/ ThumbReturns

\* The code is synchronous: a call in progress takes its next step.
ChainSpec == ChainInit /\ [][ChainNext]_vars /\ WF_vars(ChainNext)

\* The two renderings of the chain agree: a chain that is over ended as
\* UpdateThumbnail ends on the same image, after as many scale and
\* set_thumbnail calls.
ChainAgrees ==
    chain.status \in {"returned", "raised"} =>
        LET r == UpdateThumbnail(Start(chain.of), 1, scaleKeepsExif)
            count(seq, P(_)) == Cardinality({i \in DOMAIN seq : P(seq[i])})
            isScale(e) == e.call = "scale"
            isSet(e) == e.call = "set_thumbnail"
            evScale(e) == e.ev = "scale"
            evSet(e) == e.ev = "set_thumbnail"
        IN  /\ r.err = chain.err
            /\ chain.err = "CodecError" \/ count(r.log, isScale) = count(chain.events, evScale)
            /\ count(r.log, isSet) = count(chain.events, evSet)

-----------------------------------------------------------------------------
(* Orientation algebra: claims C3, C4, C5 (checked under AlgSpec)          *)

R90 == <<"rotate", 90>>
FlipH == <<"flip", "horizontal">>
FlipV == <<"flip", "vertical">>
Transpose == <<"transpose", 0>>

\* The generator permutations as section 4.1 of the specification lists
\* them, written as the images of 1, 2, ..., 8.
ListedPermutation(op) ==
    CASE op = <<"rotate", 90>>        -> <<8, 7, 6, 5, 2, 1, 4, 3>>
      [] op = <<"rotate", 180>>       -> <<3, 4, 1, 2, 7, 8, 5, 6>>
      [] op = <<"rotate", 270>>       -> <<6, 5, 8, 7, 4, 3, 2, 1>>
      [] op = <<"flip", "horizontal">> -> <<2, 1, 4, 3, 6, 5, 8, 7>>
      [] op = <<"flip", "vertical">>  -> <<4, 3, 2, 1, 8, 7, 6, 5>>
      [] op = <<"transpose", 0>>      -> <<5, 6, 7, 8, 1, 2, 3, 4>>
      [] op = <<"transverse", 0>>     -> <<7, 8, 5, 6, 3, 4, 1, 2>>

\* The permutation one operation, or no operation, performs on x
Perform(op, x) == IF op = <<"identity", 0>> THEN x ELSE TableOf(op)[x]

\* C3 (as claimed): the seven tables and the identity are closed under
\* composition: whatever two operations were applied in sequence, one of the
\* eight performs the same permutation of the orientation codes.
C3_ClosedUnderComposition ==
    Len(hist) = 2 =>
        \E single \in TableOps \cup {<<"identity", 0>>} :
            \A x \in Orientations :
                Perform(hist[2], Perform(hist[1], x)) = Perform(single, x)

\* C4: every lookup made was defined and gave a code in 1..8, and every table
\* is total on 1..8, a bijection of 1..8, and the permutation section 4.1 lists.
C4_TablesTotalBijective ==
    /\ \A i \in 1..Len(hist) :
          /\ path[i] \in DOMAIN TableOf(hist[i])
          /\ path[i + 1] \in Orientations
    /\ \A op \in TableOps :
          /\ DOMAIN TableOf(op) = Orientations
          /\ {TableOf(op)[x] : x \in Orientations} = Orientations
          /\ \A x \in Orientations : TableOf(op)[x] = ListedPermutation(op)[x]

\* C4 witness: rotate 270 was looked up on orientation 4 and gave 7
C4_Witness == hist = <<(<<"rotate", 270>>)>> /\ path = <<4, 7>>

\* C5: rotate 90 four times, transpose twice and flip horizontal twice each
\* return the orientation started from, and flip horizontal followed by flip
\* vertical gives what rotate 180 gives.
C5_SelfCheckIdentities ==
    /\ hist = <<R90, R90, R90, R90>> => Cur = path[1]
    /\ hist = <<Transpose, Transpose>> => Cur = path[1]
    /\ hist = <<FlipH, FlipH>> => Cur = path[1]
    /\ hist = <<FlipH, FlipV>> => Cur = RotateOrientation(180, path[1])

\* C5 witness: flip horizontal then flip vertical from 5 ends at 7, as rotate 180
C5_Witness ==
    /\ hist = <<FlipH, FlipV>>
    /\ path = <<5, 6, 7>>
    /\ RotateOrientation(180, 5) = 7

-----------------------------------------------------------------------------
(* Handles: claims C1, C2, C6, C7, C8, C10 (checked under Spec)            *)

Method == call[1]
Before == pre[self]
Entries(name) == {i \in DOMAIN world.log : world.log[i].call = name}
Frames == {world.tb[i] : i \in DOMAIN world.tb}
Geometric == {"rotate", "flip", "transpose", "transverse", "crop", "downscale"}

\* the corrective operation section 4.4 assigns to an orientation tag
Corrective(o) ==
    CASE o = 2 -> [call |-> "flip", on |-> 1, arg |-> <<"horizontal">>]
      [] o = 3 -> [call |-> "rotate", on |-> 1, arg |-> <<180>>]
      [] o = 4 -> [call |-> "flip", on |-> 1, arg |-> <<"vertical">>]
      [] o = 5 -> [call |-> "transpose", on |-> 1, arg |-> <<>>]
      [] o = 6 -> [call |-> "rotate", on |-> 1, arg |-> <<90>>]
      [] o = 7 -> [call |-> "transverse", on |-> 1, arg |-> <<>>]
      [] o = 8 -> [call |-> "rotate", on |-> 1, arg |-> <<270>>]

CodecCalls == {"rotate", "flip", "transpose", "transverse", "crop", "scale"}

\* C1 (as claimed): exif_autotransform fails when there is no orientation
\* tag, returns the same handle without any transform for tag 1, and for a
\* tag in 2..8 returns a new handle made by exactly the one corrective
\* operation, on which the orientation written is 1.
C1_AutotransformUpright ==
    Method = "exif_autotransform" =>
        LET o == Before.orient
        IN  /\ o = 0 => world.err = "MissingMetadata" /\ world.ret = 0
            /\ o = 1 => world.err = NoError /\ world.ret = self /\ world.log = <<>>
            /\ o \in 2..8 =>
                  /\ world.err = NoError
                  /\ world.ret \notin {0, self}
                  /\ heap[world.ret].orient = 1
                  /\ world.log[1] = Corrective(o)
                  /\ \A i \in DOMAIN world.log :
                        world.log[i].call \in CodecCalls \ {"scale"} => i = 1
                  /\ \E i \in Entries("set_orientation") :
                        world.log[i] = [call |-> "set_orientation", on |-> world.ret,
                                        arg |-> <<1>>]

\* C2 (as claimed): the thumbnail step of a geometric operation never calls
\* downscale with a target wider or higher than the image, and no operation
\* fails with the InvalidParameter error of downscale raised from
\* _update_thumbnail.
C2_ThumbnailNeverUpscales ==
    Method \in Geometric =>
        /\ \A i \in Entries("thumb_downscale") :
              LET e == world.log[i]
              IN  e.arg[1] <= heap[e.on].w /\ e.arg[2] <= heap[e.on].h
        /\ ~(world.err = "InvalidParameter" /\ "_update_thumbnail" \in Frames)

\* C6 (as claimed): crop fails with InvalidParameter before the codec is
\* called exactly when the rectangle is not valid, otherwise calls the
\* codec's crop; the crop to the full bounds succeeds; the orientation tag is
\* never written.
C6_CropValidation ==
    Method = "crop" =>
        LET x == call[2]
            y == call[3]
            width == call[4]
            height == call[5]
            valid == /\ x < Before.w /\ y < Before.h
                     /\ x + width <= Before.w /\ y + height <= Before.h
        IN  /\ ~valid => /\ world.err = "InvalidParameter"
                         /\ world.tb = <<"crop">>
                         /\ world.log = <<>>
            /\ valid => /\ world.log # <<>>
                        /\ world.log[1] = [call |-> "crop", on |-> self,
                                           arg |-> <<x, y, width, height>>]
                        /\ world.tb # <<"crop">> \/ world.err = "CodecError"
            /\ x + width > Before.w => world.err = "InvalidParameter"
            /\ <<x, y, width, height>> = <<0, 0, Before.w, Before.h>> =>
                  world.err = NoError /\ world.ret # 0
            /\ Entries("set_orientation") = {}

\* C7: downscale to the current width and height, at any quality, returns the
\* handle it was called on: no codec call, no new buffer, no thumbnail step,
\* every buffer as before.
C7_DownscaleIdentity ==
    (Method = "downscale" /\ call[2] = Before.w /\ call[3] = Before.h) =>
        /\ world.err = NoError
        /\ world.ret = self
        /\ world.log = <<>>
        /\ heap = pre

\* C7 witness: an identity downscale at quality 90 of an 800 x 1600 image
\* that has a thumbnail
C7_Witness ==
    /\ call = <<"downscale", 800, 1600, 90>>
    /\ Before.w = 800 /\ Before.h = 1600 /\ Before.thumb # <<>>
    /\ world.ret = self

IsIdentityDownscale ==
    Method = "downscale" /\ call[2] = Before.w /\ call[3] = Before.h

C10_ThumbTargetSize ==
    /\ \A i \in Entries("thumb_target") :
          LET e == world.log[i]
              b == heap[e.on]
          IN  /\ e.arg = IF b.w > b.h THEN <<160, (160 * b.h) \div b.w>>
                                      ELSE <<(160 * b.w) \div b.h, 160>>
              /\ e.arg[1] >= 1 /\ e.arg[2] >= 1
    /\ \A i \in Entries("thumb_downscale") :
          world.log[i].arg[1] >= 1 /\ world.log[i].arg[2] >= 1

-----------------------------------------------------------------------------
(* Thumbnail chain: claim C9 (checked under ChainSpec)                     *)

ChainOver == chain.status \in {"returned", "raised"}

\* a thumbnail written on an image that a nested downscale made
NestedRegeneration ==
    \E i \in DOMAIN chain.events :
        chain.events[i].ev = "set_thumbnail" /\ chain.events[i].depth > 1

\* C9 (as claimed): the chain ends, and whether or not the scaled output
\* carries an embedded thumbnail, the nested downscale never regenerates a
\* thumbnail on the image it made.
C9_NoNestedRegeneration == <>ChainOver /\ []~NestedRegeneration

\* C9 (amended): the chain ends whether or not the scaled output carries an
\* embedded thumbnail; when it carries none, the nested downscale does not
\* regenerate a thumbnail on the image it made.
C9_ChainTerminates == <>ChainOver /\ [](~scaleKeepsExif => ~NestedRegeneration)

\* C9 witness: a chain that scaled a 160 x 29 image (output carrying the
\* thumbnail), went into the nested _update_thumbnail and returned
C9_Witness ==
    /\ chain.status = "returned"
    /\ scaleKeepsExif
    /\ \E i \in DOMAIN chain.events :
          chain.events[i] = [ev |-> "scale", depth |-> 2, w |-> 160, h |-> 29]

=============================================================================
